---------------------------- MODULE Spec2Model ----------------------------
(***************************************************************************)
(* A model of sync.py: the URL canonicaliser sanitize_url and the          *)
(* reconciling run main().                                                 *)
(*                                                                         *)
(* A Python str is modelled as a sequence of one-character strings, so     *)
(* that parsing (urlparse, pathlib), filtering, joining, str.replace and   *)
(* unparsing are computed character by character as the code computes      *)
(* them.                                                                   *)
(***************************************************************************)
EXTENDS Integers, Sequences, FiniteSets, TLC

VARIABLES
    \* ---- one call of sanitize_url, then a second call on its result ----
    url,            \* the argument of sanitize_url
    out,            \* sanitize_url(url)
    san_parts,      \* the ParseResult that call hands to urlunparse (line 104)
    out2,           \* sanitize_url(out)
    spc,            \* "input" | "once" | "twice"
    \* ---- one run of main() ----
    pc,             \* position in main
    current_feeds,  \* main's current_feeds
    new_feeds,      \* main's new_feeds
    bad_feeds,      \* main's bad_feeds
    idx,            \* index into URLS of the next source to fetch
    diff,           \* the part of diff the for loop has not visited yet
    new,            \* main's counter new
    stdout,         \* the lines printed so far
    fetched,        \* the latest call of get_dynamic_feeds: what it read and returned
    \* ---- history of the run (not program state) ----
    manual_feeds,   \* what get_manual_feeds returned
    discovered,     \* what each call of get_dynamic_feeds returned, in order
    loads           \* the loads attempted so far, in order, each with its success

sanvars == <<url, out, san_parts, out2, spc>>
mainvars == <<pc, current_feeds, new_feeds, bad_feeds, idx, diff, new, stdout, fetched,
              manual_feeds, discovered, loads>>
vars == <<url, out, san_parts, out2, spc, pc, current_feeds, new_feeds, bad_feeds, idx,
          diff, new, stdout, fetched, manual_feeds, discovered, loads>>

---------------------------------------------------------------------------
(* str primitives                                                          *)

\* s.find(c, from): the first index >= from holding c, 0 when there is none
\* (indices are 1-based here, so 0 plays the part of Python's -1)
Find(s, c, from) ==
    IF \E i \in from..Len(s) : s[i] = c
    THEN CHOOSE i \in from..Len(s) : s[i] = c /\ \A j \in from..(i-1) : s[j] # c
    ELSE 0

\* s.rfind(c)
RFind(s, c) ==
    IF \E i \in 1..Len(s) : s[i] = c
    THEN CHOOSE i \in 1..Len(s) : s[i] = c /\ \A j \in (i+1)..Len(s) : s[j] # c
    ELSE 0

\* s.startswith(p) and s.endswith(p)
StartsWith(s, p) == Len(s) >= Len(p) /\ SubSeq(s, 1, Len(p)) = p
EndsWith(s, p) == Len(s) >= Len(p) /\ SubSeq(s, Len(s) - Len(p) + 1, Len(s)) = p

\* s[from-1:] in Python's 0-based slice notation
Drop(s, n) == SubSeq(s, n + 1, Len(s))

\* s.lstrip(chars) and s.strip(chars) for a set of characters
LStrip(s, chars) ==
    IF \A i \in 1..Len(s) : s[i] \in chars THEN <<>>
    ELSE Drop(s, (CHOOSE i \in 1..Len(s) :
                    s[i] \notin chars /\ \A j \in 1..(i-1) : s[j] \in chars) - 1)
RStrip(s, chars) ==
    IF \A i \in 1..Len(s) : s[i] \in chars THEN <<>>
    ELSE SubSeq(s, 1, CHOOSE i \in 1..Len(s) :
                    s[i] \notin chars /\ \A j \in (i+1)..Len(s) : s[j] \in chars)
Strip(s, chars) == RStrip(LStrip(s, chars), chars)

\* s.split(sep) for a one-character separator: a sequence of strings
RECURSIVE Split(_, _)
Split(s, sep) ==
    LET i == Find(s, sep, 1)
    IN  IF i = 0 THEN <<s>>
        ELSE <<SubSeq(s, 1, i - 1)>> \o Split(Drop(s, i), sep)

\* sep.join(parts)
RECURSIVE Join(_, _)
Join(parts, sep) ==
    IF parts = <<>> THEN <<>>
    ELSE IF Len(parts) = 1 THEN parts[1]
    ELSE parts[1] \o sep \o Join(Tail(parts), sep)

\* s.replace(old, new): every non-overlapping occurrence, left to right
RECURSIVE Replace(_, _, _)
Replace(s, old, nw) ==
    IF s = <<>> THEN <<>>
    ELSE IF StartsWith(s, old) THEN nw \o Replace(Drop(s, Len(old)), old, nw)
    ELSE <<s[1]>> \o Replace(Tail(s), old, nw)

\* s with every character of chars deleted (s.replace(b, "") for each b)
Without(s, chars) == SelectSeq(s, LAMBDA c : c \notin chars)

\* c.lower() on the ASCII letters the inputs use in upper case
Lower(c) ==
    CASE c = "H" -> "h" [] c = "T" -> "t" [] c = "P" -> "p" [] c = "S" -> "s"
      [] OTHER -> c
LowerStr(s) == [i \in 1..Len(s) |-> Lower(s[i])]

---------------------------------------------------------------------------
(* urllib.parse, as called by sanitize_url                                 *)

Letters ==
    {"a","b","c","d","e","f","g","h","i","j","k","l","m","n","o","p","q","r",
     "s","t","u","v","w","x","y","z","H","T","P","S"}
\* urllib.parse.scheme_chars
scheme_chars == Letters \cup {"0","1","2","3","4","5","6","7","8","9","+","-","."}
\* urllib.parse._WHATWG_C0_CONTROL_OR_SPACE and _UNSAFE_URL_BYTES_TO_REMOVE,
\* restricted to the characters the inputs use
C0_CONTROL_OR_SPACE == {" ", "\t"}
UNSAFE_URL_BYTES_TO_REMOVE == {"\t"}

uses_params ==
    {<<>>, <<"f","t","p">>, <<"h","d","l">>, <<"p","r","o","s","p","e","r","o">>, <<"h","t","t","p">>, <<"i","m","a","p">>, <<"h","t","t","p","s">>,
     <<"s","h","t","t","p">>, <<"r","t","s","p">>, <<"r","t","s","p","s">>, <<"r","t","s","p","u">>, <<"s","i","p">>, <<"s","i","p","s">>, <<"m","m","s">>,
     <<"s","f","t","p">>, <<"t","e","l">>}
uses_netloc ==
    {<<>>, <<"f","t","p">>, <<"h","t","t","p">>, <<"g","o","p","h","e","r">>, <<"n","n","t","p">>, <<"t","e","l","n","e","t">>, <<"i","m","a","p">>,
     <<"w","a","i","s">>, <<"f","i","l","e">>, <<"m","m","s">>, <<"h","t","t","p","s">>, <<"s","h","t","t","p">>, <<"s","n","e","w","s">>,
     <<"p","r","o","s","p","e","r","o">>, <<"r","t","s","p">>, <<"r","t","s","p","s">>, <<"r","t","s","p","u">>, <<"r","s","y","n","c">>, <<"s","v","n">>,
     <<"s","v","n","+","s","s","h">>, <<"s","f","t","p">>, <<"n","f","s">>, <<"g","i","t">>, <<"g","i","t","+","s","s","h">>, <<"w","s">>, <<"w","s","s">>}

\* _splitnetloc(url, 2): the authority runs to the first of / ? #
splitnetloc(u) ==
    LET ends == {i \in 3..Len(u) : u[i] \in {"/", "?", "#"}}
        delim == IF ends = {} THEN Len(u) + 1
                 ELSE CHOOSE i \in ends : \A j \in ends : i <= j
    IN  [netloc |-> SubSeq(u, 3, delim - 1), rest |-> Drop(u, delim - 1)]

\* urlsplit(url), statement by statement; each step takes what the one
\* before it left in the local variables
\* url.lstrip(_WHATWG_C0_CONTROL_OR_SPACE), then the unsafe bytes removed
Cleaned(raw) ==
    Without(LStrip(raw, C0_CONTROL_OR_SPACE), UNSAFE_URL_BYTES_TO_REMOVE)

\* the scheme: the text before the first ":" when it is made of scheme_chars
\* and starts with a letter; lower-cased
SplitScheme(u) ==
    LET i == Find(u, ":", 1)
    IN  IF i > 1 /\ u[1] \in Letters /\ \A j \in 1..(i-1) : u[j] \in scheme_chars
        THEN [scheme |-> LowerStr(SubSeq(u, 1, i - 1)), rest |-> Drop(u, i)]
        ELSE [scheme |-> <<>>, rest |-> u]

\* if url[:2] == '//': netloc, url = _splitnetloc(url, 2)
SplitAuthority(r) ==
    IF StartsWith(r.rest, <<"/","/">>)
    THEN [scheme |-> r.scheme, netloc |-> splitnetloc(r.rest).netloc,
          rest |-> splitnetloc(r.rest).rest]
    ELSE [scheme |-> r.scheme, netloc |-> <<>>, rest |-> r.rest]

\* if '#' in url: url, fragment = url.split('#', 1)
SplitFragment(r) ==
    LET h == Find(r.rest, "#", 1)
    IN  IF h > 0
        THEN [scheme |-> r.scheme, netloc |-> r.netloc,
              rest |-> SubSeq(r.rest, 1, h - 1), fragment |-> Drop(r.rest, h)]
        ELSE [scheme |-> r.scheme, netloc |-> r.netloc,
              rest |-> r.rest, fragment |-> <<>>]

\* if '?' in url: url, query = url.split('?', 1)
SplitQuery(r) ==
    LET q == Find(r.rest, "?", 1)
    IN  IF q > 0
        THEN [scheme |-> r.scheme, netloc |-> r.netloc,
              path |-> SubSeq(r.rest, 1, q - 1), query |-> Drop(r.rest, q),
              fragment |-> r.fragment]
        ELSE [scheme |-> r.scheme, netloc |-> r.netloc,
              path |-> r.rest, query |-> <<>>, fragment |-> r.fragment]

\* urlsplit(url): scheme, netloc, path (params still in it), query, fragment
urlsplit(raw) ==
    SplitQuery(SplitFragment(SplitAuthority(SplitScheme(Cleaned(raw)))))

\* _splitparams(url): the ;params of the last path segment
splitparams(u) ==
    LET i == IF Find(u, "/", 1) > 0 THEN Find(u, ";", RFind(u, "/"))
             ELSE Find(u, ";", 1)
    IN  IF i = 0 THEN [path |-> u, params |-> <<>>]
        ELSE [path |-> SubSeq(u, 1, i - 1), params |-> Drop(u, i)]

\* if scheme in uses_params and ';' in url: url, params = _splitparams(url)
SplitParams(sp) ==
    IF sp.scheme \in uses_params /\ Find(sp.path, ";", 1) > 0
    THEN [scheme |-> sp.scheme, netloc |-> sp.netloc,
          path |-> splitparams(sp.path).path,
          params |-> splitparams(sp.path).params,
          query |-> sp.query, fragment |-> sp.fragment]
    ELSE [scheme |-> sp.scheme, netloc |-> sp.netloc, path |-> sp.path,
          params |-> <<>>, query |-> sp.query, fragment |-> sp.fragment]

\* urlparse(url)
urlparse(raw) == SplitParams(urlsplit(raw))

\* urlunsplit((scheme, netloc, url, query, fragment))
urlunsplit(scheme, netloc, u, query, fragment) ==
    LET u1 == IF \/ netloc # <<>>
                 \/ (scheme # <<>> /\ scheme \in uses_netloc /\ ~StartsWith(u, <<"/","/">>))
              THEN <<"/","/">> \o netloc
                     \o (IF u # <<>> /\ u[1] # "/" THEN <<"/">> \o u ELSE u)
              ELSE u
        u2 == IF scheme # <<>> THEN scheme \o <<":">> \o u1 ELSE u1
        u3 == IF query # <<>> THEN u2 \o <<"?">> \o query ELSE u2
    IN  IF fragment # <<>> THEN u3 \o <<"#">> \o fragment ELSE u3

\* urlunparse(parts)
urlunparse(p) ==
    urlunsplit(p.scheme, p.netloc,
               IF p.params # <<>> THEN p.path \o <<";">> \o p.params ELSE p.path,
               p.query, p.fragment)

---------------------------------------------------------------------------
(* pathlib, as called by sanitize_url                                      *)

\* PurePosixPath(p).parts: the root ("/", or "//" for exactly two leading
\* slashes) followed by the segments that are neither empty nor "."
PathParts(p) ==
    LET rel  == LStrip(p, {"/"})
        lead == Len(p) - Len(rel)
        root == IF lead = 0 THEN <<>> ELSE IF lead = 2 THEN <<<<"/","/">>>> ELSE <<<<"/">>>>
    IN  root \o SelectSeq(Split(rel, "/"), LAMBDA x : x # <<>> /\ x # <<".">>)

---------------------------------------------------------------------------
(* sanitize_url                                                            *)

UNWANTED_URL_PATH_PARTS ==
    {<<"a","t","o","m">>, <<"f","e","e","d">>, <<"i","n","d","e","x",".","h","t","m","l">>, <<"i","n","d","e","x",".","p","h","p">>, <<"i","n","d","e","x",".","p","h","p","5">>,
     <<"r","s","s">>, <<"r","s","s",".","x","m","l">>}

\* list.remove(x): the list without its first x
ListRemove(path, x) ==
    LET i == CHOOSE k \in 1..Len(path) : path[k] = x /\ \A j \in 1..(k-1) : path[j] # x
    IN  SubSeq(path, 1, i - 1) \o Drop(path, i)

InList(path, x) == \E k \in 1..Len(path) : path[k] = x

\* mutant of RemoveWhileIn: "if" in place of "while", one removal per part
RemoveOnce(path, unwanted) ==
    IF InList(path, unwanted) THEN ListRemove(path, unwanted) ELSE path

\* while unwanted in path: path.remove(unwanted)
RECURSIVE RemoveWhileIn(_, _)
RemoveWhileIn(path, unwanted) ==
    IF InList(path, unwanted) THEN RemoveWhileIn(ListRemove(path, unwanted), unwanted)
    ELSE path

\* for unwanted in UNWANTED_URL_PATH_PARTS: ... (a set: some iteration order)
RECURSIVE RemoveUnwanted(_, _)
RemoveUnwanted(path, todo) ==
    IF todo = {} THEN path
    ELSE LET unwanted == CHOOSE x \in todo : TRUE
         IN  RemoveUnwanted(RemoveWhileIn(path, unwanted), todo \ {unwanted})

\* lines 95-99: the path string left after the unwanted parts are removed
FilteredPath(parts) ==
    Strip(Join(RemoveUnwanted(PathParts(parts.path), UNWANTED_URL_PATH_PARTS), <<"/">>),
          {"/"})

\* line 102
QueryFor(path) ==
    IF EndsWith(path, <<"r","s","s",".","p","h","p">>) THEN <<"m","o","d","e","=","l","i","n","k","s","&","d","o","=","r","s","s">> ELSE <<"d","o","=","r","s","s">>

\* mutant of Replace_: a query the input already has is kept
Replace_keepsQuery(parts, path) ==
    [parts EXCEPT !.path = IF path = <<>> THEN <<"/">> ELSE path,
                  !.query = IF parts.query # <<>> THEN parts.query
                            ELSE QueryFor(path)]

\* line 104: parts._replace(path=path or "/", query=query)
Replace_(parts, path) ==
    [parts EXCEPT !.path = IF path = <<>> THEN <<"/">> ELSE path,
                  !.query = QueryFor(path)]

\* lines 95-104: the ParseResult handed to urlunparse
Replaced(parts) == Replace_(parts, FilteredPath(parts))

\* mutant of sanitize_url: without the early return of lines 90-91
sanitize_url_unguarded(u) == urlunparse(Replaced(urlparse(u)))

\* lines 90-105
sanitize_url(u) ==
    IF u = <<>> THEN <<>>
    ELSE urlunparse(Replaced(urlparse(u)))

---------------------------------------------------------------------------
(* Inputs of sanitize_url                                                  *)

\* the longest path, in segments, of a generated input
MaxSegs == 2

\* path segments: empty (a repeated or trailing slash), ".", unwanted parts,
\* the BlogoText script, a plain folder, a name that only contains an
\* unwanted part, and a segment that carries ;params
SegPool ==
    {<<>>, <<".">>, <<"f","e","e","d">>, <<"r","s","s">>, <<"a","t","o","m">>, <<"i","n","d","e","x",".","p","h","p">>, <<"r","s","s",".","p","h","p">>,
     <<"s","h","a","a","r","l","i">>, <<"f","e","e","d","s">>, <<"f","e","e","d",";","x">>}

Prefixes == {<<"h","t","t","p","s",":","/","/","e","x","a","m","p","l","e",".","o","r","g">>, <<"h","t","t","p",":","/","/","a">>, <<>>}

Suffixes == {<<>>, <<"?">>, <<"?","d","o","=","a","t","o","m">>, <<"?","k","w","=","c","&">>, <<"#","f">>, <<"?","d","o","=","r","s","s","#","f">>}

\* every sequence of at most n segments
RECURSIVE SegLists(_)
SegLists(n) ==
    IF n = 0 THEN {<<>>}
    ELSE LET shorter == SegLists(n - 1)
         IN  shorter \cup {Append(l, s) : l \in {x \in shorter : Len(x) = n - 1},
                                            s \in SegPool}

\* "/seg1/seg2..."
RECURSIVE PathOf(_)
PathOf(segs) ==
    IF segs = <<>> THEN <<>> ELSE <<"/">> \o Head(segs) \o PathOf(Tail(segs))

Generated ==
    {pre \o PathOf(segs) \o suf :
        pre \in Prefixes, segs \in SegLists(MaxSegs), suf \in Suffixes}
    \cup {Tail(PathOf(segs)) \o suf :
        segs \in SegLists(MaxSegs) \ {<<>>}, suf \in Suffixes}

\* the inputs of the doctest (lines 37-88)
Doctests ==
    {<<"h","t","t","p","s",":","/","/","e","x","a","m","p","l","e",".","o","r","g","/","?","d","o","=","a","t","o","m">>,
     <<"h","t","t","p","s",":","/","/","e","x","a","m","p","l","e",".","o","r","g","/","?","d","o","=","r","s","s">>,
     <<"h","t","t","p","s",":","/","/","e","x","a","m","p","l","e",".","o","r","g","/","f","e","e","d","/","a","t","o","m">>,
     <<"h","t","t","p","s",":","/","/","e","x","a","m","p","l","e",".","o","r","g","/","f","e","e","d","/","r","s","s">>,
     <<"h","t","t","p","s",":","/","/","e","x","a","m","p","l","e",".","o","r","g","/","f","e","e","d","/","r","s","s","?","d","o","=","a","t","o","m">>,
     <<"h","t","t","p","s",":","/","/","e","x","a","m","p","l","e",".","o","r","g","/","f","e","e","d","/","r","s","s","?","d","o","=","r","s","s">>,
     <<"h","t","t","p","s",":","/","/","e","x","a","m","p","l","e",".","o","r","g","/","s","h","a","a","r","l","i","/","?","d","o","=","a","t","o","m">>,
     <<"h","t","t","p","s",":","/","/","e","x","a","m","p","l","e",".","o","r","g","/","s","h","a","a","r","l","i","/","?","d","o","=","r","s","s">>,
     <<"h","t","t","p","s",":","/","/","e","x","a","m","p","l","e",".","o","r","g","/","s","h","a","a","r","l","i","/","f","e","e","d","/","a","t","o","m">>,
     <<"h","t","t","p","s",":","/","/","e","x","a","m","p","l","e",".","o","r","g","/","s","h","a","a","r","l","i","/","f","e","e","d","/","r","s","s">>,
     <<"h","t","t","p","s",":","/","/","e","x","a","m","p","l","e",".","o","r","g","/","s","h","a","a","r","l","i","/","f","e","e","d","/","r","s","s","?","d","o","=","a","t","o","m">>,
     <<"h","t","t","p","s",":","/","/","e","x","a","m","p","l","e",".","o","r","g","/","s","h","a","a","r","l","i","/","f","e","e","d","/","r","s","s","?","d","o","=","r","s","s">>,
     <<"h","t","t","p","s",":","/","/","e","x","a","m","p","l","e",".","o","r","g","/","r","s","s",".","p","h","p","?","m","o","d","e","=","l","i","n","k","s","&","d","o","=","r","s","s">>,
     <<>>,
     <<"h","t","t","p","s",":","/","/","e","x","a","m","p","l","e",".","o","r","g","/","/","?","d","o","=","r","s","s">>,
     <<"h","t","t","p","s",":","/","/","e","x","a","m","p","l","e",".","o","r","g","/","/","f","e","e","d","?","d","o","=","r","s","s">>,
     <<"h","t","t","p","s",":","/","/","e","x","a","m","p","l","e",".","o","r","g","/","?","d","o","=","r","s","s","?">>,
     <<"h","t","t","p","s",":","/","/","e","x","a","m","p","l","e",".","o","r","g","/","i","n","d","e","x",".","p","h","p","?","d","o","=","r","s","s","&">>,
     <<"h","t","t","p","s",":","/","/","e","x","a","m","p","l","e",".","o","r","g","/","i","n","d","e","x",".","p","h","p","5","?","d","o","=","r","s","s">>,
     <<"h","t","t","p","s",":","/","/","e","x","a","m","p","l","e",".","o","r","g","/","s","h","a","a","r","l","i","/","f","e","e","d","/","f","e","e","d","/","r","s","s">>,
     <<"h","t","t","p","s",":","/","/","e","x","a","m","p","l","e",".","o","r","g","/","r","s","s",".","x","m","l">>,
     <<"h","t","t","p","s",":","/","/","e","x","a","m","p","l","e",".","o","r","g","/","?","k","w","=","c","o","m","p","u","t","e","r","%","2","0","s","e","r","v","i","c","e","s">>,
     <<"h","t","t","p","s",":","/","/","e","x","a","m","p","l","e",".","o","r","g","/","c","a","r","n","e","t",".","a","t","o","m">>}

\* further inputs: the unwanted part no doctest uses, upper case and leading
\* white space in front of the scheme, a tab inside, a scheme without authority
Others ==
    {<<"h","t","t","p","s",":","/","/","e","x","a","m","p","l","e",".","o","r","g","/","i","n","d","e","x",".","h","t","m","l">>,
     <<"H","T","T","P","S",":","/","/","e","x","a","m","p","l","e",".","o","r","g","/","f","e","e","d">>,
     <<" ","h","t","t","p","s",":","/","/","e","x","a","m","p","l","e",".","o","r","g","/","r","s","s">>,
     <<" ">>,
     <<"h","t","t","p","s",":","f","e","e","d">>,
     <<"/","/","a","/","f","e","e","d">>,
     <<"h","t","t","p",":","/","/","a","/","h","t","t","p","s",":">>,
     <<"h","t","t","p","s",":","/","/","a","/","s","h","a","a","r","l","i","/","r","s","s",".","p","h","p",";","p","/","f","e","e","d","?","x","#","f">>}

Inputs == Generated \cup Doctests \cup Others

NoParts ==
    [scheme |-> <<>>, netloc |-> <<>>, path |-> <<>>, params |-> <<>>,
     query |-> <<>>, fragment |-> <<>>]

---------------------------------------------------------------------------
(* The world main() runs in: three local files and four remote sources    *)

\* lines 16-22: the kinds of the sources, in list order
URLS == <<"json", "json", "json", "opml">>

\* the most URLs a local file lists, and the most feeds a remote document lists
MaxList == 1
MaxFeeds == 1

\* raw URLs found in the local files: an empty string, a feed under http,
\* and a feed whose path itself holds a scheme-like segment, under http and
\* under https
RawPool ==
    {<<>>, <<"h","t","t","p",":","/","/","a","/","f","e","e","d">>, <<"h","t","t","p",":","/","/","a","/","h","t","t","p","s",":">>, <<"h","t","t","p","s",":","/","/","a","/","h","t","t","p","s",":","/","r","s","s">>}

\* raw URLs the remote sources list: the first feed again, under https
RemotePool == {<<"h","t","t","p","s",":","/","/","a","/","i","n","d","e","x",".","p","h","p">>}

\* sanitize_url is pure: its value on each raw URL, computed once
Sanitized == [u \in RawPool \cup RemotePool |-> sanitize_url(u)]

\* Path.read_text() and json.loads() on a local file: the file is missing,
\* is not JSON, or is an array of strings
Files ==
    {[state |-> "missing", urls |-> {}], [state |-> "malformed", urls |-> {}]}
    \cup {[state |-> "ok", urls |-> us] :
            us \in {x \in SUBSET RawPool : Cardinality(x) <= MaxList}}

\* a payload is a sequence of lexical pieces
Tok(t, u) == [t |-> t, u |-> u]
LBRACKET == Tok("[", <<>>)
RBRACKET == Tok("]", <<>>)
COMMA == Tok(",", <<>>)
\* {"url": u, ...}
FeedObject(u) == Tok("object", u)
\* an <outline ... xmlUrl="u" .../> element
Outline(u) == Tok("xmlUrl", u)
OPML_OPEN == Tok("<opml><body>", <<>>)
OPML_CLOSE == Tok("</body></opml>", <<>>)
\* text that is neither JSON nor OPML (an HTML error page)
HTML == Tok("<html>", <<>>)
\* bytes that are not UTF-8
BAD_BYTES == Tok("\\xff", <<>>)

RECURSIVE FeedLists(_)
FeedLists(n) ==
    IF n = 0 THEN {<<>>}
    ELSE LET shorter == FeedLists(n - 1)
         IN  shorter \cup {Append(l, u) : l \in {x \in shorter : Len(x) = n - 1},
                                            u \in RemotePool}

RECURSIVE JsonItems(_)
JsonItems(feeds) ==
    IF feeds = <<>> THEN <<>>
    ELSE IF Len(feeds) = 1 THEN <<FeedObject(feeds[1])>>
    ELSE <<FeedObject(feeds[1]), COMMA>> \o JsonItems(Tail(feeds))

\* the document a JSON source serves for a list of feeds
JsonDoc(feeds) == <<LBRACKET>> \o JsonItems(feeds) \o <<RBRACKET>>

\* the document an OPML source serves for a list of feeds
OpmlDoc(feeds) ==
    <<OPML_OPEN>> \o [i \in 1..Len(feeds) |-> Outline(feeds[i])] \o <<OPML_CLOSE>>

\* what a source may serve: a well-formed document, or one that is not
Documents(kind) ==
    IF kind = "json"
    THEN {JsonDoc(f) : f \in FeedLists(MaxFeeds)} \cup {<<HTML>>}
    ELSE {OpmlDoc(f) : f \in FeedLists(MaxFeeds)}
            \cup {<<HTML>>, <<OPML_OPEN, Outline(<<"h","t","t","p","s",":","/","/","a","/","i","n","d","e","x",".","p","h","p">>), HTML>>,
                  <<OPML_OPEN, BAD_BYTES, OPML_CLOSE>>}

\* urlopen(url).read() (lines 109-112): the whole document, or IncompleteRead
\* carrying the pieces received so far, or another error (URLError, ...)
Reads(kind) ==
    {[outcome |-> "complete", data |-> d] : d \in Documents(kind)}
    \cup UNION {{[outcome |-> "incomplete", data |-> SubSeq(d, 1, k)] :
                    k \in 0..Len(d)} : d \in Documents(kind)}
    \cup {[outcome |-> "error", data |-> <<>>]}

---------------------------------------------------------------------------
(* get_dynamic_feeds                                                       *)

\* json.loads(data) accepts the payload: "[" object ("," object)* "]" or "[]"
JsonLoads(data) ==
    /\ Len(data) >= 2
    /\ data[1] = LBRACKET
    /\ data[Len(data)] = RBRACKET
    /\ LET inner == SubSeq(data, 2, Len(data) - 1)
       IN  \/ inner = <<>>
           \/ /\ Len(inner) % 2 = 1
              /\ \A i \in 1..Len(inner) :
                    IF i % 2 = 1 THEN inner[i].t = "object" ELSE inner[i] = COMMA

\* line 116: feed["url"] for feed in json.loads(data)
JsonUrls(data) == {data[i].u : i \in {j \in 1..Len(data) : data[j].t = "object"}}

\* data.decode() succeeds
Decodes(data) == \A i \in 1..Len(data) : data[i] # BAD_BYTES

\* line 118: re.findall(r'xmlUrl="([^"]+)"', data.decode())
OpmlUrls(data) ==
    {data[i].u : i \in {j \in 1..Len(data) : data[j].t = "xmlUrl" /\ data[j].u # <<>>}}

\* mutant of ParseRaises: a json.loads failure is swallowed
ParseRaises_decodeOnly(kind, data) == ~Decodes(data)

\* lines 114-118 raise
ParseRaises(kind, data) ==
    IF kind = "json" THEN ~JsonLoads(data) ELSE ~Decodes(data)

\* lines 114-118: the raw URLs of a payload that parses
ExtractUrls(kind, data) ==
    IF kind = "json" THEN JsonUrls(data) ELSE OpmlUrls(data)

\* line 110-112: the read raises past the except clause
ReadRaises(rd) == rd.outcome = "error"

\* get_dynamic_feeds(kind, url) for one outcome of the read
get_dynamic_feeds(kind, rd) ==
    IF ReadRaises(rd) \/ ParseRaises(kind, rd.data)
    THEN [raised |-> TRUE, feeds |-> {}]
    ELSE [raised |-> FALSE,
          feeds |-> {Sanitized[u] : u \in ExtractUrls(kind, rd.data)}]

\* get_current_feeds / get_manual_feeds / get_bad_feeds on a file
LoadRaises(file) == file.state # "ok"
LoadFeeds(file) == {Sanitized[u] : u \in file.urls}

---------------------------------------------------------------------------
(* One run of main()                                                       *)

\* an entry of the history of loads
Load(what, ok) == [what |-> what, ok |-> ok]
\* the name under which the n-th entry of URLS appears in that history
Source(n) == <<"URLS[0]", "URLS[1]", "URLS[2]", "URLS[3]">>[n]

NoFetch ==
    [source |-> 0, kind |-> "none", outcome |-> "none", data |-> <<>>,
     raised |-> FALSE, feeds |-> {}]

MainInit ==
    /\ pc = "get_current_feeds"
    /\ current_feeds = {}
    /\ new_feeds = {}
    /\ bad_feeds = {}
    /\ idx = 1
    /\ diff = {}
    /\ new = 0
    /\ stdout = <<>>
    /\ fetched = NoFetch
    /\ manual_feeds = {}
    /\ discovered = <<>>
    /\ loads = <<>>

SanInit ==
    /\ url = <<>>
    /\ out = <<>>
    /\ san_parts = NoParts
    /\ out2 = <<>>
    /\ spc = "input"

Init == SanInit /\ MainInit

\* line 135
GetCurrentFeeds ==
    /\ pc = "get_current_feeds"
    /\ \E file \in Files :
          /\ loads' = Append(loads, Load("shaarlis.json", ~LoadRaises(file)))
          /\ IF LoadRaises(file)
             THEN pc' = "raised" /\ UNCHANGED current_feeds
             ELSE pc' = "get_manual_feeds" /\ current_feeds' = LoadFeeds(file)
    /\ UNCHANGED <<new_feeds, bad_feeds, idx, diff, new, stdout, fetched>>
    /\ UNCHANGED <<manual_feeds, discovered>>
    /\ UNCHANGED sanvars

\* line 136
GetManualFeeds ==
    /\ pc = "get_manual_feeds"
    /\ \E file \in Files :
          /\ loads' = Append(loads, Load("manual.json", ~LoadRaises(file)))
          /\ IF LoadRaises(file)
             THEN pc' = "raised" /\ UNCHANGED <<new_feeds, manual_feeds>>
             ELSE /\ pc' = "get_bad_feeds"
                  /\ new_feeds' = LoadFeeds(file)
                  /\ manual_feeds' = LoadFeeds(file)
    /\ UNCHANGED <<current_feeds, bad_feeds, idx, diff, new, stdout, fetched>>
    /\ UNCHANGED discovered
    /\ UNCHANGED sanvars

\* mutant of GetBadFeeds: a bad.json that cannot be loaded counts as empty
GetBadFeeds_fallback ==
    /\ pc = "get_bad_feeds"
    /\ \E file \in Files :
          /\ loads' = Append(loads, Load("bad.json", ~LoadRaises(file)))
          /\ bad_feeds' = IF LoadRaises(file) THEN {} ELSE LoadFeeds(file)
          /\ pc' = "fetch"
    /\ UNCHANGED <<current_feeds, new_feeds, idx, diff, new, stdout, fetched>>
    /\ UNCHANGED <<manual_feeds, discovered>>
    /\ UNCHANGED sanvars

\* line 137
GetBadFeeds ==
    /\ pc = "get_bad_feeds"
    /\ \E file \in Files :
          /\ loads' = Append(loads, Load("bad.json", ~LoadRaises(file)))
          /\ IF LoadRaises(file)
             THEN pc' = "raised" /\ UNCHANGED bad_feeds
             ELSE pc' = "fetch" /\ bad_feeds' = LoadFeeds(file)
    /\ UNCHANGED <<current_feeds, new_feeds, idx, diff, new, stdout, fetched>>
    /\ UNCHANGED <<manual_feeds, discovered>>
    /\ UNCHANGED sanvars

\* lines 139-140: one iteration of the loop over URLS
GetDynamicFeeds ==
    /\ pc = "fetch"
    /\ idx <= Len(URLS)
    /\ \E rd \in Reads(URLS[idx]) :
          LET res == get_dynamic_feeds(URLS[idx], rd)
          IN  /\ fetched' = [source |-> idx, kind |-> URLS[idx],
                             outcome |-> rd.outcome, data |-> rd.data,
                             raised |-> res.raised, feeds |-> res.feeds]
              /\ loads' = Append(loads, Load(Source(idx), ~res.raised))
              /\ IF res.raised
                 THEN pc' = "raised" /\ UNCHANGED <<new_feeds, idx, discovered>>
                 ELSE /\ new_feeds' = new_feeds \cup res.feeds
                      /\ discovered' = Append(discovered, res.feeds)
                      /\ idx' = idx + 1
                      /\ pc' = IF idx = Len(URLS) THEN "diff" ELSE "fetch"
    /\ UNCHANGED <<current_feeds, bad_feeds, diff, new, stdout, manual_feeds>>
    /\ UNCHANGED sanvars

\* lines 142-143
ComputeDiff ==
    /\ pc = "diff"
    /\ diff' = (new_feeds \ current_feeds) \ bad_feeds
    /\ new' = 0
    /\ pc' = "loop"
    /\ UNCHANGED <<current_feeds, new_feeds, bad_feeds, idx, stdout, fetched>>
    /\ UNCHANGED <<manual_feeds, discovered, loads>>
    /\ UNCHANGED sanvars

\* mutant of IsNew: without the check of line 148
IsNew_httpsOnly(feed_url, current) ==
    /\ feed_url # <<>>
    /\ Replace(feed_url, <<"h","t","t","p",":">>, <<"h","t","t","p","s",":">>) \notin current

\* lines 145-149: the condition under which a feed is printed
IsNew(feed_url, current) ==
    /\ feed_url # <<>>
    /\ Replace(feed_url, <<"h","t","t","p",":">>, <<"h","t","t","p","s",":">>) \notin current
    /\ Replace(feed_url, <<"h","t","t","p","s",":">>, <<"h","t","t","p",":">>) \notin current

\* str(n)
RECURSIVE IntToStr(_)
IntToStr(n) ==
    LET digit == <<"0","1","2","3","4","5","6","7","8","9">>[(n % 10) + 1]
    IN  IF n < 10 THEN <<digit>> ELSE IntToStr(n \div 10) \o <<digit>>

\* line 150: f'"{feed_url}",'
FeedLine(feed_url) == <<"\"">> \o feed_url \o <<"\"", ",">>
\* line 153: f"+ {new}"
CountLine(n) == <<"+"," ">> \o IntToStr(n)

\* lines 144-151: one iteration of the loop over diff (a set: any order)
LoopIteration ==
    /\ pc = "loop"
    /\ \E feed_url \in diff :
          /\ diff' = diff \ {feed_url}
          /\ IF IsNew(feed_url, current_feeds)
             THEN /\ stdout' = Append(stdout, FeedLine(feed_url))
                  /\ new' = new + 1
             ELSE UNCHANGED <<stdout, new>>
    /\ UNCHANGED <<pc, current_feeds, new_feeds, bad_feeds, idx, fetched>>
    /\ UNCHANGED <<manual_feeds, discovered, loads>>
    /\ UNCHANGED sanvars

\* line 153
PrintCount ==
    /\ pc = "loop"
    /\ diff = {}
    /\ stdout' = Append(stdout, CountLine(new))
    /\ pc' = "done"
    /\ UNCHANGED <<current_feeds, new_feeds, bad_feeds, idx, diff, new, fetched>>
    /\ UNCHANGED <<manual_feeds, discovered, loads>>
    /\ UNCHANGED sanvars

Next ==
    \/ GetCurrentFeeds
    \/ GetManualFeeds
    \/ GetBadFeeds
    \/ GetDynamicFeeds
    \/ ComputeDiff
    \/ LoopIteration
    \/ PrintCount

Spec == Init /\ [][Next]_vars

---------------------------------------------------------------------------
(* The canonicaliser on its own: sanitize_url(url), then sanitize_url of   *)
(* the result                                                              *)

InitSan ==
    /\ url \in Inputs
    /\ out = <<>>
    /\ san_parts = NoParts
    /\ out2 = <<>>
    /\ spc = "input"
    /\ MainInit

Sanitize ==
    /\ spc = "input"
    /\ out' = sanitize_url(url)
    /\ san_parts' = IF url = <<>> THEN NoParts ELSE Replaced(urlparse(url))
    /\ spc' = "once"
    /\ UNCHANGED <<url, out2>>
    /\ UNCHANGED mainvars

SanitizeAgain ==
    /\ spc = "once"
    /\ out2' = sanitize_url(out)
    /\ spc' = "twice"
    /\ UNCHANGED <<url, out, san_parts>>
    /\ UNCHANGED mainvars

NextSan == Sanitize \/ SanitizeAgain

SpecSan == InitSan /\ [][NextSan]_vars

---------------------------------------------------------------------------
(* Properties of sanitize_url, checked under SpecSan                       *)

Called == spc # "input"

\* the slash-delimited segments of a path string that are not empty
NonEmptySegments(p) == SelectSeq(Split(p, "/"), LAMBDA x : x # <<>>)

\* C1: sanitize_url is idempotent: for every non-empty input u,
\* sanitize_url(sanitize_url(u)) = sanitize_url(u).
C1_Idempotent == (spc = "twice" /\ url # <<>>) => out2 = out

WantedSegments(p) ==
    SelectSeq(NonEmptySegments(p),
              LAMBDA x : x # <<".">> /\ x \notin UNWANTED_URL_PATH_PARTS)

C3_DoctestFeedFeedRss ==
    (Called /\ url = <<"h","t","t","p","s",":","/","/","e","x","a","m","p","l","e",".","o","r","g","/","s","h","a","a","r","l","i","/","f","e","e","d","/","f","e","e","d","/","r","s","s">>)
        => out = <<"h","t","t","p","s",":","/","/","e","x","a","m","p","l","e",".","o","r","g","/","s","h","a","a","r","l","i","/","f","e","e","d","?","d","o","=","r","s","s">>

\* C4: whatever the query of a non-empty input, the query of the result is
\* exactly mode=links&do=rss when the path left after filtering ends in
\* rss.php, and exactly do=rss otherwise.
C4_QueryReplaced ==
    (Called /\ url # <<>>) =>
        urlparse(out).query
            = IF EndsWith(Join(WantedSegments(urlparse(url).path), <<"/">>), <<"r","s","s",".","p","h","p">>)
              THEN <<"m","o","d","e","=","l","i","n","k","s","&","d","o","=","r","s","s">>
              ELSE <<"d","o","=","r","s","s">>

\* C4 witness: an input with an unrelated query and a path ending in rss.php
C4_Witness ==
    /\ Called
    /\ urlparse(url).query = <<"k","w","=","c","&">>
    /\ urlparse(url).path = <<"/","s","h","a","a","r","l","i","/","r","s","s",".","p","h","p">>
    /\ urlparse(out).query = <<"m","o","d","e","=","l","i","n","k","s","&","d","o","=","r","s","s">>

---------------------------------------------------------------------------
(* Properties of main(), checked under Spec                                *)

\* the feed lines printed so far (the count line starts with "+")
Printed == {stdout[i] : i \in {j \in 1..Len(stdout) : stdout[j][1] = "\""}}

\* the two variants of a URL the claims speak of
WithHttps(u) == Replace(u, <<"h","t","t","p",":">>, <<"h","t","t","p","s",":">>)
WithHttp(u) == Replace(u, <<"h","t","t","p","s",":">>, <<"h","t","t","p",":">>)

\* C6: for every URL u of current, neither u with http: replaced by https: nor
\* u with https: replaced by http: is ever printed.
C6_SchemeSwapDedup ==
    \A u \in current_feeds :
        /\ FeedLine(WithHttps(u)) \notin Printed
        /\ FeedLine(WithHttp(u)) \notin Printed

\* what C7 says a run prints
Candidates ==
    ((manual_feeds \cup UNION {discovered[i] : i \in 1..Len(discovered)})
        \ current_feeds) \ bad_feeds
Residual ==
    {u \in Candidates :
        u # <<>> /\ WithHttps(u) \notin current_feeds /\ WithHttp(u) \notin current_feeds}

C8_IncompleteReadTolerated ==
    fetched.outcome = "incomplete" =>
        /\ ~fetched.raised
        /\ pc # "raised"
        /\ idx > fetched.source

\* the documents a source of some kind serves for some list of feeds
WellFormed(kind, data) ==
    \E f \in FeedLists(Len(data)) :
        data = IF kind = "json" THEN JsonDoc(f) ELSE OpmlDoc(f)

\* the run stopped at the latest fetch: no later source, nothing printed
HaltedAtFetch ==
    /\ fetched.raised
    /\ pc = "raised"
    /\ idx = fetched.source
    /\ Len(discovered) = fetched.source - 1
    /\ stdout = <<>>

LoadOrder ==
    <<"shaarlis.json", "manual.json", "bad.json",
      "URLS[0]", "URLS[1]", "URLS[2]", "URLS[3]">>

\* C10: main loads current, manual, bad and then URLS in list order, prints
\* only after all of them are loaded, and prints nothing at all when a load
\* raises.
C10_AllOrNothing ==
    /\ Len(loads) <= Len(LoadOrder)
    /\ \A i \in 1..Len(loads) : loads[i].what = LoadOrder[i]
    /\ stdout # <<>> => Len(loads) = Len(LoadOrder)
    /\ (\E i \in 1..Len(loads) : ~loads[i].ok) => (stdout = <<>> /\ pc = "raised")
    /\ pc = "done" => stdout[Len(stdout)] = CountLine(new)

\* C10 witness: a run whose last source raised, after six loads that succeeded
C10_Witness ==
    /\ Len(loads) = Len(LoadOrder)
    /\ ~loads[Len(loads)].ok
    /\ new_feeds # {}
    /\ pc = "raised"
    /\ stdout = <<>>

===========================================================================
